---------------------------- MODULE Spec2Model ----------------------------
(***************************************************************************)
(* Model of app.py: a Flask service holding one process-wide dataset       *)
(* (df_global) that is loaded lazily from DATA_FILE, replaced by POST      *)
(* /upload, and read by the analytical routes.                             *)
(*                                                                         *)
(* Two specifications share the module:                                    *)
(*   Spec      request threads of the threaded Flask server, interleaved   *)
(*             at every read and write of the globals df_global,           *)
(*             data_initialized and of the file temp_data.csv;             *)
(*   SpecPure  the processing functions (preprocess_data,                  *)
(*             get_sales_summary, group_sales_by_date,                     *)
(*             perform_pca_analysis) applied to every table of a bounded   *)
(*             family.                                                     *)
(***************************************************************************)
EXTENDS Integers, Sequences, FiniteSets, TLC

(***************************************************************************)
(* Bounds of the model.                                                    *)
(***************************************************************************)
NumRequests == 2     \* requests served, each by a thread of its own
MaxRows == 3         \* rows of a table of SpecPure
MaxExtra == 3        \* numeric columns besides SALES in a table of SpecPure
MaxParam == 4        \* largest n_components / n_clusters tried in SpecPure

(***************************************************************************)
(* Tables.  A DataFrame is modelled by the columns the code looks at:      *)
(*   hasDate   the table has an ORDERDATE column                           *)
(*   hasSales  the table has a (numeric) SALES column                      *)
(*   extra     number of further numeric columns (no missing values)       *)
(*   dt        ORDERDATE has dtype datetime64 (it has been parsed)         *)
(*   rows      sequence of [d |-> ORDERDATE cell, s |-> SALES cell]        *)
(* An ORDERDATE cell is a raw CSV string (a code >= 100) before parsing    *)
(* and a timestamp in hours (or NaT) after it.  A SALES cell is a number   *)
(* or NaN.                                                                 *)
(***************************************************************************)
NaT == -1            \* pandas' missing timestamp
NaN == -2            \* pandas' missing number

\* The raw ORDERDATE strings of the model:
\*   100 "n/a"   101 "2021-01-01"   102 "2021-01-01 10:00"   103 "2021-01-02"
RawDates == {100, 101, 102, 103}
SalesVals == {NaN, 10, 20}

\* pd.to_datetime(cell, errors='coerce') on one raw string: hours since
\* 2020-12-31 00:00, NaT for a string that is no date.
to_datetime(c) ==
  CASE c = 101 -> 24
    [] c = 102 -> 34
    [] c = 103 -> 48
    [] OTHER   -> NaT

\* Timestamp.strftime('%Y-%m-%d'): the calendar day of a timestamp (the day
\* number stands for the string; ISO date strings order as the days do).
strftime(ts) == ts \div 24

EmptyTable == [hasDate |-> FALSE, hasSales |-> FALSE, extra |-> 0,
               dt |-> FALSE, rows |-> << >>]

RECURSIVE SumSeq(_)
SumSeq(s) == IF s = << >> THEN 0 ELSE Head(s) + SumSeq(Tail(s))

SetMax(S) == CHOOSE x \in S : \A y \in S : y <= x
SetMin(S) == CHOOSE x \in S : \A y \in S : x <= y

\* Series.sum() with skipna=True: missing values are left out, an empty
\* or all-missing series sums to 0.
SeriesSum(s) == SumSeq(SelectSeq(s, LAMBDA x : x # NaN))

SalesCol(df) == [i \in 1..Len(df.rows) |-> df.rows[i].s]

\* line 71: df['ORDERDATE'] = pd.to_datetime(df['ORDERDATE'], errors='coerce')
\* (a column that is already datetime64 is left as it is)
ParseDates(df) ==
  [df EXCEPT !.dt = TRUE,
             !.rows = [i \in 1..Len(df.rows) |->
                         [df.rows[i] EXCEPT !.d = IF df.dt THEN @ ELSE to_datetime(@)]]]

\* line 72: df.dropna(subset=['ORDERDATE'])
DropNaT(df) == [df EXCEPT !.rows = SelectSeq(df.rows, LAMBDA r : r.d # NaT)]

\* Insert row r into the sorted sequence s after every row whose key is <= r.d.
RECURSIVE InsertSorted(_, _)
InsertSorted(s, r) ==
  IF s = << >> THEN << r >>
  ELSE IF Head(s).d <= r.d THEN << Head(s) >> \o InsertSorted(Tail(s), r)
  ELSE << r >> \o s

RECURSIVE SortRows(_)
SortRows(s) ==
  IF s = << >> THEN << >>
  ELSE InsertSorted(SortRows(SubSeq(s, 1, Len(s) - 1)), s[Len(s)])

\* line 73: df.sort_values('ORDERDATE') (ascending; rows with equal keys
\* keep their order, as numpy's sort does on short arrays)
SortValues(df) == [df EXCEPT !.rows = SortRows(df.rows)]

\* preprocess_data (lines 69-74), as a function of the table passed in.
preprocess_data(df) ==
  IF df.hasDate THEN SortValues(DropNaT(ParseDates(df))) ELSE df

\* The Table invariant of the data model: ORDERDATE parsed, no unparseable
\* row left, rows ascending.
IsSorted(s) == \A i \in 1..(Len(s) - 1) : s[i].d <= s[i + 1].d
IsPreprocessed(df) ==
  df.hasDate => /\ df.dt
                /\ \A i \in 1..Len(df.rows) : df.rows[i].d # NaT
                /\ IsSorted(df.rows)

\* get_sales_summary (lines 76-83).  mean is kept as the pair it is the
\* quotient of; max and min of no value are NaN.
SalesSumOp(df) == SeriesSum(SalesCol(df))
get_sales_summary(df) ==
  LET vals == {df.rows[i].s : i \in 1..Len(df.rows)} \ {NaN}
      n == Len(SelectSeq(SalesCol(df), LAMBDA x : x # NaN))
  IN [total_sales |-> SalesSumOp(df),
      average_sales |-> << SalesSumOp(df), n >>,
      max_sales |-> IF vals = {} THEN NaN ELSE SetMax(vals),
      min_sales |-> IF vals = {} THEN NaN ELSE SetMin(vals),
      total_orders |-> Len(df.rows)]

\* The group keys of df.groupby('ORDERDATE'): the distinct ORDERDATE values
\* (missing keys are dropped), in ascending order.
RECURSIVE SetToSortedSeq(_)
SetToSortedSeq(S) ==
  IF S = {} THEN << >>
  ELSE LET m == SetMin(S) IN << m >> \o SetToSortedSeq(S \ {m})

GroupKeys(df) == SetToSortedSeq({df.rows[i].d : i \in 1..Len(df.rows)} \ {NaT})

\* Deliberately wrong variant of GroupSum: the group's first SALES value where the code sums
\* them (.first() for .sum()).
GroupSum_First(df, k) ==
  LET g == SelectSeq(df.rows, LAMBDA r : r.d = k) IN IF g[1].s = NaN THEN 0 ELSE g[1].s

\* line 86: the sum of SALES of the rows of one group
GroupSum(df, k) ==
  SeriesSum(SalesCol([df EXCEPT !.rows = SelectSeq(df.rows, LAMBDA r : r.d = k)]))

\* group_sales_by_date (lines 85-88): one record per distinct ORDERDATE
\* value, ascending by it, then ORDERDATE replaced by its '%Y-%m-%d' string.
group_sales_by_date(df) ==
  LET keys == GroupKeys(df)
  IN [i \in 1..Len(keys) |->
        [ORDERDATE |-> strftime(keys[i]), SALES |-> GroupSum(df, keys[i])]]

\* df.select_dtypes(include=['number']): the number of numeric columns, and
\* .dropna(): the rows without a missing value in them.
NumCols(df) == (IF df.hasSales THEN 1 ELSE 0) + df.extra
NumRows(df) ==
  IF df.hasSales THEN Len(SelectSeq(df.rows, LAMBDA r : r.s # NaN))
  ELSE Len(df.rows)

\* line 107: the defaults of n_components and n_clusters, which every route
\* calls perform_pca_analysis with
DefaultComponents == 3
DefaultClusters == 3

\* line 110: the guard of perform_pca_analysis
InsufficientData(df, n_components) ==
  NumRows(df) = 0 \/ NumCols(df) < n_components

\* perform_pca_analysis (lines 107-132).  Outcomes:
\*   "error_dict"  the dict {"error": ...} of line 111 (one value, not a pair)
\*   "raise"       sklearn raises: PCA.fit_transform when n_components >
\*                 min(n_samples, n_features) (line 117), KMeans.fit_predict
\*                 when n_clusters < 1 or n_samples < n_clusters (line 128)
\*   "pair"        the pair (pca_df, result) of line 132
perform_pca_analysis(df, n_components, apply_clustering, n_clusters) ==
  IF InsufficientData(df, n_components)
  THEN [kind |-> "error_dict", n |-> 0, k |-> 0, clusters |-> 0]
  ELSE IF n_components > NumRows(df)
  THEN [kind |-> "raise", n |-> 0, k |-> 0, clusters |-> 0]
  ELSE IF apply_clustering /\ (n_clusters < 1 \/ n_clusters > NumRows(df))
  THEN [kind |-> "raise", n |-> 0, k |-> 0, clusters |-> 0]
  ELSE [kind |-> "pair", n |-> NumRows(df), k |-> n_components,
        clusters |-> IF apply_clustering THEN n_clusters ELSE 0]


(***************************************************************************)
(* The files of the model.  load_data (lines 52-67) returns the DataFrame  *)
(* read_csv parsed, or str(e) when read_csv raised.                        *)
(***************************************************************************)
\* data/sales_data_sample.csv, when it is a readable CSV: ORDERDATE, SALES
\* and two more numeric columns.
DefaultTable ==
  [hasDate |-> TRUE, hasSales |-> TRUE, extra |-> 2, dt |-> FALSE,
   rows |-> << [d |-> 103, s |-> 30], [d |-> 101, s |-> 100], [d |-> 101, s |-> 50] >>]

\* Uploaded file "A": ORDERDATE out of order with one unparseable date, SALES
\* the only numeric column.
TableA ==
  [hasDate |-> TRUE, hasSales |-> TRUE, extra |-> 0, dt |-> FALSE,
   rows |-> << [d |-> 103, s |-> 20], [d |-> 100, s |-> 10], [d |-> 102, s |-> NaN],
               [d |-> 101, s |-> 10] >>]

\* Uploaded file "B": no ORDERDATE, three numeric columns, two rows.
TableB ==
  [hasDate |-> FALSE, hasSales |-> TRUE, extra |-> 2, dt |-> FALSE,
   rows |-> << [d |-> 0, s |-> 20], [d |-> 0, s |-> 10] >>]

\* Uploaded file "X" is no CSV (read_csv raises).
UploadFiles == {"A", "B", "X"}

EmptyVal == [kind |-> "none", msg |-> "", oid |-> 0, tbl |-> EmptyTable]
ErrVal(m) == [kind |-> "err", msg |-> m, oid |-> 0, tbl |-> EmptyTable]
\* A DataFrame object with contents t.  Line 71 is the only statement that
\* changes a DataFrame in place, and it changes nothing once ORDERDATE is
\* datetime64 (or absent), so the identity o of the object is kept only while
\* ORDERDATE is still unparsed.
TblVal(o, t) ==
  [kind |-> "tbl", msg |-> "", oid |-> IF t.hasDate /\ ~t.dt THEN o ELSE 0, tbl |-> t]

\* load_data(filepath): the value returned for the file contents `f`, the
\* DataFrame being the new object `o`.
load_data(f, o) ==
  CASE f = "A"       -> TblVal(o, TableA)
    [] f = "B"       -> TblVal(o, TableB)
    [] f = "default" -> TblVal(o, DefaultTable)
    [] OTHER         -> ErrVal("EmptyDataError")

(***************************************************************************)
(* Responses.  code is the HTTP status, body names the payload, msg the    *)
(* error message carried, on the table the payload was computed from.      *)
(***************************************************************************)
Response(c, b, m, t) == [code |-> c, body |-> b, msg |-> m, on |-> t]
NoResponse == Response(0, "", "", EmptyTable)
\* an exception that leaves the view function: Flask answers 500
Fault == Response(500, "fault", "", EmptyTable)

AnalyticRoutes == {"summary", "grouped", "correlation", "distribution", "pca",
                   "plot_grouped", "plot_correlation", "plot_distribution", "plot_pca"}

\* The routes' bodies below their check_data_loaded guard (lines 224, 231,
\* 238, 245-248, 255-258, 267-268, 275-276, 283-286, 293-294), and the last
\* branch of status (lines 338-346), on the value v the name df_global is
\* bound to when the body runs.
CanGroup(t) == t.hasDate /\ t.hasSales /\ t.dt
RouteBody(route, v) ==
  IF v.kind # "tbl" THEN Fault
  ELSE LET t == v.tbl IN
    CASE route = "summary" ->
           IF t.hasSales THEN Response(200, "summary", "", t) ELSE Fault
      [] route = "grouped" ->
           IF CanGroup(t) THEN Response(200, "grouped", "", t) ELSE Fault
      [] route = "correlation" -> Fault   \* jsonify cannot serialise a DataFrame
      [] route = "distribution" ->
           IF t.hasSales THEN Response(200, "distribution", "", t)
           ELSE Response(400, "error", "Columna SALES no encontrada", EmptyTable)
      [] route = "pca" ->
           \* `_, result = perform_pca_analysis(df_global)` unpacks a pair
           IF perform_pca_analysis(t, DefaultComponents, TRUE, DefaultClusters).kind = "pair"
           THEN Response(200, "pca", "", t) ELSE Fault
      [] route = "plot_grouped" ->
           IF CanGroup(t) THEN Response(200, "png_grouped", "", t) ELSE Fault
      [] route = "plot_correlation" ->
           IF NumCols(t) > 0 THEN Response(200, "png_correlation", "", t) ELSE Fault
      [] route = "plot_distribution" ->
           IF t.hasSales THEN Response(200, "png_distribution", "", t)
           ELSE Response(400, "error", "Columna SALES no encontrada", EmptyTable)
      [] route = "plot_pca" ->
           \* `pca_df, _ = perform_pca_analysis(...)` unpacks a pair
           IF perform_pca_analysis(t, DefaultComponents, TRUE, DefaultClusters).kind = "pair"
           THEN Response(200, "png_pca", "", t) ELSE Fault
      [] OTHER -> Response(200, "status_loaded", "", t)

(***************************************************************************)
(* State.                                                                  *)
(***************************************************************************)
Threads == 1..NumRequests

VARIABLES
  df_global,         \* line 19: None, an error string or a DataFrame
  data_initialized,  \* line 20
  dataFile,          \* DATA_FILE on disk: "absent", "bad" or "default"
  tempFile,          \* contents of temp_data.csv: "none" or an uploaded file
  th,                \* per request thread: see IdleThread
  last,              \* history: the request answered by the step just taken
  anyLoadOk,         \* history: some load_data returned a DataFrame
  uploadInstalled,   \* history: some upload stored its preprocessed table
  ptbl, ppc, pres    \* SpecPure: table under test, step, results

cvars == << df_global, data_initialized, dataFile, tempFile, th, last,
            anyLoadOk, uploadInstalled >>
pvars == << ptbl, ppc, pres >>
vars == << cvars, pvars >>

\* A thread: pc the line it is about to run, route and file the request it
\* serves, loc the parameter df of preprocess_data, and as history: chk the
\* value of df_global that passed line 211, errSince whether df_global has
\* been an error string ever since its line 209.
IdleThread == [pc |-> "idle", route |-> "", file |-> "none", loc |-> EmptyVal,
               chk |-> EmptyVal, errSince |-> FALSE]

\* The request answered by the step just taken (NoLast when that step
\* answered none): its route and file, the response, the value of df_global
\* the answering line read, and the thread's history.
DoneThread == [IdleThread EXCEPT !.pc = "done"]

NoLast == [route |-> "", file |-> "none", resp |-> NoResponse, use |-> EmptyVal,
           chk |-> EmptyVal, errSince |-> FALSE]

NoResults == [summary |-> << >>, grouped |-> << >>, params |-> << >>, pca |-> << >>]

\* The module's `if __name__ == '__main__'` block (lines 348-356) has run or
\* not (the app imported by a WSGI server) before the first request.
MainLoad(f) ==
  IF f = "absent" THEN EmptyVal
  ELSE LET v == load_data(f, 0)
       IN IF v.kind = "tbl" THEN TblVal(0, preprocess_data(v.tbl)) ELSE v

ConcInit(main) ==
  /\ dataFile \in {"absent", "bad", "default"}
  /\ df_global = IF main THEN MainLoad(dataFile) ELSE EmptyVal
  /\ data_initialized = FALSE
  /\ tempFile = "none"
  /\ th = [p \in Threads |-> IdleThread]
  /\ last = NoLast
  /\ anyLoadOk = (main /\ dataFile = "default")
  /\ uploadInstalled = FALSE

PureOff ==
  /\ ptbl = EmptyTable
  /\ ppc = "off"
  /\ pres = NoResults

Init == (\E main \in BOOLEAN : ConcInit(main)) /\ PureOff

(***************************************************************************)
(* Request threads.  The threaded server runs every request in a thread of *)
(* its own: before_request_func (lines 46-48), that is initialize_data,    *)
(* and then the view function.  A step is one read or one write of a       *)
(* global (or of temp_data.csv) with the local computation around it.      *)
(***************************************************************************)
\* Thread p answers r (having used the value u of df_global) and ends.
Finish(p, r, u) ==
  /\ last' = [route |-> th[p].route, file |-> th[p].file, resp |-> r, use |-> u,
              chk |-> th[p].chk, errSince |-> th[p].errSince]
  /\ th' = [th EXCEPT ![p] = DoneThread]

\* Thread p goes on at line l.
Goto(p, l) ==
  /\ th' = [th EXCEPT ![p].pc = l]
  /\ last' = NoLast

\* History kept when df_global is assigned the value v: a table ends every
\* thread's errSince.
Written(t, v) ==
  IF v.kind = "tbl" THEN [q \in Threads |-> [t[q] EXCEPT !.errSince = FALSE]] ELSE t

NoteWrite(v) == anyLoadOk' = (anyLoadOk \/ v.kind = "tbl")

\* The object load_data creates in thread p: one for initialize_data, one
\* for upload_file.
InitObj(p) == 2 * p - 1
UploadObj(p) == 2 * p

\* A request arrives (requests are numbered as they arrive) and its thread
\* runs initialize_data, lines 29-33 and 40-41: the flag and the file test.
Init29(p) ==
  /\ th[p].pc = "idle"
  /\ \A q \in Threads : q < p => th[q].pc # "idle"
  /\ IF data_initialized THEN Goto(p, "dispatch")
     ELSE IF dataFile = "absent" THEN Goto(p, "init_43")
     ELSE Goto(p, "init_34")
  /\ UNCHANGED << df_global, data_initialized, dataFile, tempFile,
                  anyLoadOk, uploadInstalled, pvars >>

\* line 34: df_global = load_data(DATA_FILE)
Init34(p) ==
  /\ th[p].pc = "init_34"
  /\ df_global' = load_data(dataFile, InitObj(p))
  /\ NoteWrite(df_global')
  /\ th' = Written([th EXCEPT ![p].pc = "init_35"], df_global')
  /\ last' = NoLast
  /\ UNCHANGED << data_initialized, dataFile, tempFile, uploadInstalled,
                  pvars >>

\* line 35: isinstance(df_global, pd.DataFrame); line 39 otherwise
Init35(p) ==
  /\ th[p].pc = "init_35"
  /\ IF df_global.kind = "tbl" THEN Goto(p, "init_36") ELSE Goto(p, "init_43")
  /\ UNCHANGED << df_global, data_initialized, dataFile, tempFile,
                  anyLoadOk, uploadInstalled, pvars >>

\* The argument of preprocess_data(df_global) is read (lines 36 and 319) and
\* line 70 runs: `'ORDERDATE' in df.columns` raises on a string.
CallPreprocess(p, next) ==
  /\ IF df_global.kind = "tbl"
     THEN /\ th' = [th EXCEPT ![p].pc = next, ![p].loc = df_global]
          /\ last' = NoLast
     ELSE Finish(p, Fault, df_global)
  /\ UNCHANGED << df_global, data_initialized, dataFile, tempFile,
                  anyLoadOk, uploadInstalled, pvars >>

\* line 71 assigns the parsed column into the DataFrame object passed in:
\* every name bound to that object (df_global, another thread's df) sees it.
SameObject(v, w) == v.kind = "tbl" /\ w.kind = "tbl" /\ v.oid = w.oid /\ v.oid # 0
Line71(p, next) ==
  LET mine == th[p].loc
      new == IF mine.tbl.hasDate THEN ParseDates(mine.tbl) ELSE mine.tbl
  IN /\ th' = [q \in Threads |->
                 [th[q] EXCEPT !.pc = IF q = p THEN next ELSE @,
                               !.loc = IF q = p \/ SameObject(@, mine)
                                       THEN TblVal(0, new) ELSE @]]
     /\ df_global' = IF SameObject(df_global, mine)
                     THEN TblVal(0, new) ELSE df_global
     /\ last' = NoLast
     /\ UNCHANGED << data_initialized, dataFile, tempFile, anyLoadOk,
                     uploadInstalled, pvars >>

\* lines 72-74 and the assignment of the returned table to df_global (lines
\* 36 and 319).  dropna and sort_values return new DataFrames; without an
\* ORDERDATE column the object passed in is returned.
Preprocessed(v) ==
  IF v.tbl.hasDate THEN TblVal(0, preprocess_data(v.tbl)) ELSE v

StorePreprocessed(p, next) ==
  /\ df_global' = Preprocessed(th[p].loc)
  /\ NoteWrite(df_global')
  /\ th' = Written([th EXCEPT ![p].pc = next, ![p].loc = EmptyVal], df_global')
  /\ last' = NoLast

Init36(p) == th[p].pc = "init_36" /\ CallPreprocess(p, "init_71")
Init71(p) == th[p].pc = "init_71" /\ Line71(p, "init_72")
Init72(p) ==
  /\ th[p].pc = "init_72"
  /\ StorePreprocessed(p, "init_43")
  /\ UNCHANGED << data_initialized, dataFile, tempFile,
                  uploadInstalled, pvars >>

\* line 43: data_initialized = True
Init43(p) ==
  /\ th[p].pc = "init_43"
  /\ data_initialized' = TRUE
  /\ Goto(p, "dispatch")
  /\ UNCHANGED << df_global, dataFile, tempFile, anyLoadOk,
                  uploadInstalled, pvars >>

\* The request is routed to its view function.  home, line 217:
Home(p) ==
  /\ th[p].pc = "dispatch"
  /\ last' = [NoLast EXCEPT !.route = "home",
                            !.resp = Response(200, "message", "", EmptyTable)]
  /\ th' = [th EXCEPT ![p] = DoneThread]
  /\ UNCHANGED << df_global, data_initialized, dataFile, tempFile,
                  anyLoadOk, uploadInstalled, pvars >>

\* upload_file, lines 301-310: no file part (file = "none"), or the file
\* saved as temp_data.csv
Up301(p) ==
  /\ th[p].pc = "dispatch"
  /\ \E file \in UploadFiles \cup {"none"} :
       IF file = "none"
       THEN /\ last' = [NoLast EXCEPT !.route = "upload",
                 !.resp = Response(400, "error", "No se envio ningun archivo", EmptyTable)]
            /\ th' = [th EXCEPT ![p] = DoneThread]
            /\ UNCHANGED tempFile
       ELSE /\ tempFile' = file
            /\ th' = [th EXCEPT ![p].route = "upload", ![p].file = file,
                                ![p].pc = "up_313"]
            /\ last' = NoLast
  /\ UNCHANGED << df_global, data_initialized, dataFile,
                  anyLoadOk, uploadInstalled, pvars >>

\* line 313: df_global = load_data(temp_path)
Up313(p) ==
  /\ th[p].pc = "up_313"
  /\ df_global' = load_data(tempFile, UploadObj(p))
  /\ NoteWrite(df_global')
  /\ th' = Written([th EXCEPT ![p].pc = "up_315"], df_global')
  /\ last' = NoLast
  /\ UNCHANGED << data_initialized, dataFile, tempFile, uploadInstalled, pvars >>

\* lines 315-316: isinstance(df_global, str)
Up315(p) ==
  /\ th[p].pc = "up_315"
  /\ IF df_global.kind = "err"
     THEN Finish(p, Response(400, "error", df_global.msg, EmptyTable), df_global)
     ELSE Goto(p, "up_319")
  /\ UNCHANGED << df_global, data_initialized, dataFile, tempFile,
                  anyLoadOk, uploadInstalled, pvars >>

Up319(p) == th[p].pc = "up_319" /\ CallPreprocess(p, "up_71")
Up71(p) == th[p].pc = "up_71" /\ Line71(p, "up_72")
Up72(p) ==
  /\ th[p].pc = "up_72"
  /\ StorePreprocessed(p, "up_321")
  /\ uploadInstalled' = TRUE
  /\ UNCHANGED << data_initialized, dataFile, tempFile, pvars >>

\* lines 321-326: the response reads df_global.shape and df_global.columns
\* (`.shape` of a string raises)
Up321(p) ==
  /\ th[p].pc = "up_321"
  /\ IF df_global.kind = "tbl"
     THEN Finish(p, Response(200, "uploaded", "", df_global.tbl), df_global)
     ELSE Finish(p, Fault, df_global)
  /\ UNCHANGED << df_global, data_initialized, dataFile, tempFile,
                  anyLoadOk, uploadInstalled, pvars >>

\* Deliberately wrong variant of NotLoaded: the error body without its status (`, 400` left
\* out of line 210, so Flask answers 200).
NotLoaded_Status200(route) ==
  Response(200, "error", "No hay datos cargados", EmptyTable)

\* check_data_loaded, lines 209-210 (status: 333-334), the answer when
\* df_global is None.
NotLoaded(route) ==
  IF route = "status"
  THEN Response(200, "status_empty", "No hay datos cargados", EmptyTable)
  ELSE Response(400, "error", "No hay datos cargados", EmptyTable)

\* The nine analytic routes start alike; "read" stands for them until the
\* body of the one requested runs.
Rd209(p) ==
  /\ th[p].pc = "dispatch"
  /\ \E route \in {"read", "status"} :
       IF df_global.kind = "none"
       THEN /\ last' = [NoLast EXCEPT !.route = route, !.resp = NotLoaded(route)]
            /\ th' = [th EXCEPT ![p] = DoneThread]
       ELSE /\ th' = [th EXCEPT ![p].pc = "rd_211", ![p].route = route,
                                ![p].errSince = (df_global.kind = "err")]
            /\ last' = NoLast
  /\ UNCHANGED << df_global, data_initialized, dataFile, tempFile,
                  anyLoadOk, uploadInstalled, pvars >>

\* Deliberately wrong variant of check_data_loaded: the isinstance(df_global, str) test of line
\* 211 left out, so an error string passes the check.
check_data_loaded_NoStrTest(route, v) == NoResponse

\* check_data_loaded, lines 211-213 (status: 335-336): the answer when the
\* value v of df_global is a string, none when it is not and the body runs.
check_data_loaded(route, v) ==
  IF v.kind = "err"
  THEN IF route = "status" THEN Response(200, "status_error", v.msg, EmptyTable)
       ELSE Response(400, "error", v.msg, EmptyTable)
  ELSE NoResponse

Rd211(p) ==
  /\ th[p].pc = "rd_211"
  /\ LET r == check_data_loaded(th[p].route, df_global)
     IN IF r # NoResponse
        THEN Finish(p, r, df_global)
        ELSE /\ th' = [th EXCEPT ![p].pc = "rd_use", ![p].chk = df_global]
             /\ last' = NoLast
  /\ UNCHANGED << df_global, data_initialized, dataFile, tempFile,
                  anyLoadOk, uploadInstalled, pvars >>

\* The route body: df_global is read again and the view computed from it.
RdUse(p) ==
  /\ th[p].pc = "rd_use"
  /\ \E route \in IF th[p].route = "status" THEN {"status"} ELSE AnalyticRoutes :
       /\ last' = [route |-> route, file |-> "none",
                   resp |-> RouteBody(route, df_global), use |-> df_global,
                   chk |-> th[p].chk, errSince |-> th[p].errSince]
       /\ th' = [th EXCEPT ![p] = DoneThread]
  /\ UNCHANGED << df_global, data_initialized, dataFile, tempFile,
                  anyLoadOk, uploadInstalled, pvars >>

Step(p) ==
  \/ Init29(p) \/ Init34(p) \/ Init35(p) \/ Init36(p) \/ Init71(p) \/ Init72(p)
  \/ Init43(p)
  \/ Home(p)
  \/ Up301(p) \/ Up313(p) \/ Up315(p) \/ Up319(p) \/ Up71(p) \/ Up72(p) \/ Up321(p)
  \/ Rd209(p) \/ Rd211(p) \/ RdUse(p)

Next == \E p \in Threads : Step(p)

Spec == Init /\ [][Next]_vars

(***************************************************************************)
(* SpecPure: the processing functions on every raw table of at most        *)
(* MaxRows rows, as load_data would return it.                             *)
(***************************************************************************)
RowsOf(hd, hs) ==
  LET Cell == [d : IF hd THEN RawDates ELSE {0}, s : IF hs THEN SalesVals ELSE {0}]
  IN UNION {[1..n -> Cell] : n \in 0..MaxRows}

PureTables ==
  UNION {[hasDate : {hd}, hasSales : {hs}, extra : 0..MaxExtra, dt : {FALSE},
          rows : RowsOf(hd, hs)] : hd \in BOOLEAN, hs \in BOOLEAN}

PureInit ==
  /\ ConcInit(FALSE)
  /\ dataFile = "absent"
  /\ ptbl \in PureTables
  /\ ppc = "raw"
  /\ pres = NoResults

\* preprocess_data(df) on the loaded table
PPreprocess ==
  /\ ppc = "raw"
  /\ ptbl' = preprocess_data(ptbl)
  /\ ppc' = "pre"
  /\ UNCHANGED << pres, cvars >>

\* get_sales_summary(df) on the preprocessed table
PSummary ==
  /\ ppc = "pre"
  /\ ptbl.hasSales
  /\ pres' = [pres EXCEPT !.summary = << get_sales_summary(ptbl) >>]
  /\ ppc' = "summary"
  /\ UNCHANGED << ptbl, cvars >>

\* group_sales_by_date(df) on the same table
PGrouped ==
  /\ ppc = "summary"
  /\ CanGroup(ptbl)
  /\ pres' = [pres EXCEPT !.grouped = group_sales_by_date(ptbl)]
  /\ ppc' = "grouped"
  /\ UNCHANGED << ptbl, cvars >>

\* perform_pca_analysis(df, n_components, apply_clustering, n_clusters)
PPca ==
  /\ ppc = "pre"
  /\ \E k \in 1..MaxParam, cl \in BOOLEAN, c \in 0..MaxParam :
       pres' = [pres EXCEPT !.params = << k, cl, c >>,
                            !.pca = << perform_pca_analysis(ptbl, k, cl, c) >>]
  /\ ppc' = "pca"
  /\ UNCHANGED << ptbl, cvars >>

PureNext == PPreprocess \/ PSummary \/ PGrouped \/ PPca

SpecPure == PureInit /\ [][PureNext]_vars


(***************************************************************************)
(* Properties.  `last` is the request answered by the step just taken, so  *)
(* a property of `last` is a property of every response the service        *)
(* sends.                                                                  *)
(***************************************************************************)
\* the routes that go through check_data_loaded ("read" is an analytic route
\* answered before its body ran)
Analytic == AnalyticRoutes \cup {"read"}
Reads == Analytic \cup {"status"}

\* C1: whatever table a read route finds in df_global is fully preprocessed
\* (ORDERDATE parsed, unparseable rows dropped, rows ascending), never the
\* table a load has parsed but not yet preprocessed.
C1_ReaderSeesPreprocessed ==
  (last.route \in Reads /\ last.use.kind = "tbl") => IsPreprocessed(last.use.tbl)

\* C2: a read computes on the value that passed its loaded-check: the value
\* of df_global the route body uses is the table line 211 saw.
C2_ReadOnSnapshot ==
  (last.route \in Reads /\ last.chk.kind = "tbl")
    => (last.use.kind = "tbl" /\ last.use.tbl = last.chk.tbl)

\* C3: concurrent uploads do not interleave: the load_data of an upload reads
\* the file that upload saved, and the table an upload reports in its
\* response is the preprocessed table of its own file.
OwnTable(f) == preprocess_data(load_data(f, 0).tbl)
C3_UploadsOwnFile ==
  /\ [][\A p \in Threads :
          (th[p].pc = "up_313" /\ th'[p].pc = "up_315") => tempFile = th[p].file]_vars
  /\ []((last.route = "upload" /\ last.resp.body = "uploaded")
          => last.resp.on = OwnTable(last.file))

\* C4: after a failed load the session holds the error, and a read made
\* while it does (no table assigned to df_global from the read's line 209 to
\* its answer) reports that error: status 400 with the message on the nine
\* analytic routes, the message on /status, and no route computes a result.
C4_ErrorReported ==
  (last.route \in Reads /\ last.errSince)
    => /\ last.use.kind = "err"
       /\ last.resp.msg = last.use.msg
       /\ last.resp.on = EmptyTable
       /\ IF last.route = "status" THEN last.resp.body = "status_error"
          ELSE last.resp.code = 400 /\ last.resp.body = "error"

C4_Witness ==
  /\ last.route = "read"
  /\ last.errSince
  /\ last.resp = Response(400, "error", "EmptyDataError", EmptyTable)
  /\ dataFile = "absent"
  /\ tempFile = "X"

\* C5 as claimed: while no load has succeeded (no default dataset, no
\* successful upload) every analytic route answers the not-loaded error.
C5_NotLoadedOnly ==
  (last.route \in Analytic /\ dataFile = "absent" /\ ~anyLoadOk)
    => last.resp = NotLoaded("read")

\* C5 as amended: while no load has succeeded every analytic route answers
\* status 400 with an error and without a result: the not-loaded error, or,
\* once a load has failed, the load error the session records.
C5_ErrorWhileNoLoadOk ==
  (last.route \in Analytic /\ ~anyLoadOk)
    => /\ last.resp.code = 400
       /\ last.resp.body = "error"
       /\ last.resp.on = EmptyTable
       /\ \/ last.resp = NotLoaded("read")
          \/ last.use.kind = "err" /\ last.resp.msg = last.use.msg

C5_Witness ==
  /\ last.route = "read"
  /\ ~anyLoadOk
  /\ dataFile = "absent"
  /\ last.use.kind = "err"
  /\ last.resp = Response(400, "error", "EmptyDataError", EmptyTable)

\* C6: on a table with too little numeric data for three components the pca
\* and plot/pca routes answer status 400 with an error, never a fault.
C6_InsufficientDataIs400 ==
  (last.route \in {"pca", "plot_pca"} /\ last.use.kind = "tbl"
     /\ InsufficientData(last.use.tbl, DefaultComponents))
    => (last.resp.code = 400 /\ last.resp.body = "error")

\* C7: perform_pca_analysis returns an error, and neither a projection nor
\* a library exception, when n_components exceeds the numeric columns or the
\* clustering asked for has n_clusters < 1 or > the rows left.
C7_BadParametersRejected ==
  ppc = "pca" =>
    LET k == pres.params[1]
        cl == pres.params[2]
        c == pres.params[3]
    IN (k > NumCols(ptbl) \/ (cl /\ (c < 1 \/ c > NumRows(ptbl))))
         => pres.pca[1].kind = "error_dict"

\* C8: on a preprocessed table with ORDERDATE and SALES the SALES of the
\* records of group_sales_by_date add up to total_sales of
\* get_sales_summary, missing SALES included.
GroupedTotal(g) == SumSeq([i \in 1..Len(g) |-> g[i].SALES])
C8_GroupingPreservesTotal ==
  ppc = "grouped" => GroupedTotal(pres.grouped) = pres.summary[1].total_sales

C8_Witness ==
  /\ ppc = "grouped"
  /\ Len(pres.grouped) = 2
  /\ Len(ptbl.rows) = 3
  /\ \E i \in 1..3 : ptbl.rows[i].s = NaN
  /\ pres.summary[1].total_sales = 30

\* C9: the date strings group_sales_by_date emits are pairwise distinct and
\* strictly ascending.
C9_DatesStrictlyAscending ==
  ppc = "grouped" =>
    \A i, j \in 1..Len(pres.grouped) :
      i < j => pres.grouped[i].ORDERDATE < pres.grouped[j].ORDERDATE

\* C10: once an upload has installed its table, no step of initialize_data
\* assigns df_global (line 34: the default dataset or its load error, line
\* 36: the preprocessed default dataset).
InitAssigns(p) == th[p].pc \in {"init_34", "init_72"} /\ th'[p].pc # th[p].pc
C10_InitNeverOverwritesUpload ==
  [][uploadInstalled => \A p \in Threads : ~InitAssigns(p)]_vars

=============================================================================
